---- MODULE Spec2Model ----
(***************************************************************************)
(* The metering programs of the repository as one state machine: a run     *)
(* picks a program (TaskD, TaskE or TaskF) and a data file, loads the file *)
(* with that program's read_data and, for TaskF, drives the interactive    *)
(* report session of main() one user input at a time.                      *)
(*                                                                         *)
(* Text the user types and text the program prints is a sequence of        *)
(* chunks (one-character strings for everything that is parsed or built    *)
(* digit by digit, whole literals for fixed labels).  A field of a data    *)
(* line is a token [kind, val, date, hour]: kind says what the text looks  *)
(* like ("iso" timestamp, "int", "dot" or "comma" decimal, "junk"), val is *)
(* the number it denotes in hundredths.  A float is the exact rational     *)
(* [n, d] = n / (100 * d); binary rounding error of doubles is not         *)
(* modelled, nor are the texts "nan" and "inf" that float() accepts.       *)
(* Printed text is ASCII: the en dash of the period line is "-" and the    *)
(* degree sign of the temperature line is left out.  The user always       *)
(* answers a prompt: end of input and interrupts are outside the model.    *)
(*                                                                         *)
(* Three specifications share the variables.  Spec is the machine above.   *)
(* MeterSpec runs the two phase-based programs to their end: TaskD prints  *)
(* the daily totals of one week, TaskE reads three week files and writes   *)
(* summary.txt.  ResSpec runs the reservation scripts (TaskB, TaskC, the   *)
(* two variants of TaskG) over reservations.txt.                           *)
(***************************************************************************)
EXTENDS Integers, Sequences, FiniteSets, TLC

VARIABLES
    prog,        \* which script runs: "TaskD", "TaskE", "TaskF", ...
    file,        \* the data file on disk: [exists, lines], lines[1] the header
    db,          \* the list read_data returned (main's db / rows / data)
    pc,          \* where the run is blocked or how it ended
    sel,         \* parameters of the report being collected / last computed
    report,      \* main's variable report: the lines of the current report
    reportFile,  \* report.txt (TaskE: summary.txt) on disk: [exists, lines]
    out,         \* what the last step printed, line by line
    lastInput,   \* the text the last step read from the user
    ioResult     \* outcome of the write attempted by the last step

vars == <<prog, file, db, pc, sel, report, reportFile, out, lastInput, ioResult>>

(***************************************************************************)
(* Bounds of the model.                                                    *)
(***************************************************************************)
MaxLinesDE == 2      \* data lines after the header in a TaskD / TaskE data file
MaxLinesF == 1       \* data lines after the header in 2025.csv
MaxWritten == 1      \* lines a failing write may leave in report.txt
MaxRes == 2          \* lines of reservations.txt

(***************************************************************************)
(* Program constants.                                                      *)
(***************************************************************************)
MinFieldsF == 4          \* task_f.py: len(parts) >= 4
FieldsE == 7             \* task_e.py: len(parts) == 7
LastFieldD == 6          \* task_d.py: line[6] is the last field read
ReportYear == 2025       \* task_f.py: get_monthly_data(data, month, 2025)
CIntMax == 2147483647    \* largest value datetime.date() accepts as a C int
MaxYear == 9999          \* datetime.MAXYEAR

(***************************************************************************)
(* Generic helpers on sequences.                                           *)
(***************************************************************************)
RECURSIVE SeqsUpTo(_, _)
SeqsUpTo(S, n) ==
    IF n = 0 THEN {<<>>}
    ELSE LET shorter == SeqsUpTo(S, n - 1)
         IN  shorter \cup {Append(s, x) : s \in {t \in shorter : Len(t) = n - 1}, x \in S}

RECURSIVE SumOver(_, _)
\* Python's sum(r[field] for r in records)
SumOver(field, records) ==
    IF records = <<>> THEN 0 ELSE Head(records)[field] + SumOver(field, Tail(records))

Prefix(s, k) == SubSeq(s, 1, k)

(***************************************************************************)
(* Tokens: the fields of a data line as text.                              *)
(***************************************************************************)
NoDate == <<0, 0, 0>>
Iso(dt, h) == [kind |-> "iso", val |-> 0, date |-> dt, hour |-> h]
Num(k, v) == [kind |-> k, val |-> v, date |-> NoDate, hour |-> 0]
Junk == [kind |-> "junk", val |-> 0, date |-> NoDate, hour |-> 0]

\* str.replace(",", ".") on a field
ReplaceComma(tok) == IF tok.kind = "comma" THEN [tok EXCEPT !.kind = "dot"] ELSE tok

\* float(text): [err, val]
PyFloat(tok) ==
    IF tok.kind \in {"int", "dot"} THEN [err |-> "", val |-> tok.val]
    ELSE [err |-> "ValueError", val |-> 0]

\* int(text): [err, val]
PyIntTok(tok) ==
    IF tok.kind = "int" THEN [err |-> "", val |-> tok.val]
    ELSE [err |-> "ValueError", val |-> 0]

\* datetime.fromisoformat(text): [err, time]
FromIsoFormat(tok) ==
    IF tok.kind = "iso" THEN [err |-> "", time |-> [date |-> tok.date, hour |-> tok.hour]]
    ELSE [err |-> "ValueError", time |-> [date |-> NoDate, hour |-> 0]]

\* datetime.date()
DateOf(time) == time.date

\* date.__le__: lexicographic on (year, month, day)
DateLE(a, b) ==
    \/ a[1] < b[1]
    \/ a[1] = b[1] /\ a[2] < b[2]
    \/ a[1] = b[1] /\ a[2] = b[2] /\ a[3] <= b[3]

(***************************************************************************)
(* Data files.                                                             *)
(***************************************************************************)
Absent == [exists |-> FALSE, lines |-> <<>>]
OnDisk(ls) == [exists |-> TRUE, lines |-> ls]

D1 == <<2025, 1, 15>>
D2 == <<2025, 2, 2>>
D0 == <<2024, 12, 31>>

Header == <<Junk, Junk, Junk, Junk>>

\* lines of the temperature-bearing format: timestamp;consumption;production;temperature
LinesF ==
    { <<Iso(D1, 0), Num("comma", 150), Num("int", 200), Num("dot", -350)>>,
      <<Iso(D2, 23), Num("dot", 250), Num("dot", 125), Num("int", 500)>>,
      <<Iso(D0, 23), Num("int", 100), Num("int", 300), Num("int", -100)>>,
      <<Iso(D1, 0), Num("int", 100), Num("int", 100)>>,                  \* three fields
      <<Iso(D1, 0), Junk, Num("int", 100), Num("int", 100)>>,            \* bad number
      <<Iso(D2, 0), Num("int", 700), Num("int", 0), Num("int", 100), Junk>>, \* five fields
      <<>> }                                                             \* blank line

\* lines of the phase format: timestamp;c1;c2;c3;p1;p2;p3 (Wh)
LinesDE ==
    { <<Iso(D1, 8), Num("int", 100000), Num("int", 50000), Num("int", 25000),
        Num("int", 0), Num("int", 0), Num("int", 0)>>,
      <<Iso(D2, 9), Num("dot", 150050), Num("int", 50000), Num("int", 25000),
        Num("int", 0), Num("int", 10000), Num("int", 0)>>,
      <<Iso(D1, 9), Junk, Num("int", 50000), Num("int", 25000),
        Num("int", 0), Num("int", 0), Num("int", 0)>>,                   \* bad number
      <<Iso(D1, 9), Num("int", 50000), Num("int", 25000)>>,              \* three fields
      <<>> }                                                             \* blank line

\* TaskD reads whole numbers only: a second line it accepts, of another day
LinesD ==
    LinesDE \cup
    { <<Iso(D2, 10), Num("int", 30000), Num("int", 0), Num("int", 12500),
        Num("int", 20000), Num("int", 0), Num("int", 500)>> }

LinesOf(p) == IF p = "TaskF" THEN LinesF ELSE IF p = "TaskD" THEN LinesD ELSE LinesDE

MaxLinesOf(p) == IF p = "TaskF" THEN MaxLinesF ELSE MaxLinesDE

\* every state of the data file: absent, empty, header plus some lines
Files(p) ==
    {Absent, OnDisk(<<>>)}
        \cup {OnDisk(<<Header>> \o ls) : ls \in SeqsUpTo(LinesOf(p), MaxLinesOf(p))}

(***************************************************************************)
(* TaskF read_data.                                                        *)
(***************************************************************************)
\* line.strip().split(";"): the empty line splits into one empty field
PartsF(line) == IF line = <<>> THEN <<Junk>> ELSE line

\* the body of the loop for one line: [keep, rec]
ParseLineF(line) ==
    LET parts == PartsF(line)
        none == [keep |-> FALSE, rec |-> <<>>]
    IN  IF Len(parts) >= MinFieldsF
        THEN LET t == FromIsoFormat(parts[1])
                 c == PyFloat(ReplaceComma(parts[2]))
                 p == PyFloat(ReplaceComma(parts[3]))
                 k == PyFloat(ReplaceComma(parts[4]))
             IN  IF t.err # "" \/ c.err # "" \/ p.err # "" \/ k.err # ""
                 THEN none
                 ELSE [keep |-> TRUE,
                       rec |-> <<[time |-> t.time, consumption |-> c.val,
                                  production |-> p.val, temperature |-> k.val]>>]
        ELSE none

RECURSIVE ParseLinesF(_)
ParseLinesF(ls) ==
    IF ls = <<>> THEN <<>> ELSE ParseLineF(Head(ls)).rec \o ParseLinesF(Tail(ls))

FileNotFoundF == <<"Error: File 2025.csv not found.">>

\* read_data: [raised, data, printed]
read_data_F(f) ==
    IF ~f.exists THEN [raised |-> "", data |-> <<>>, printed |-> <<FileNotFoundF>>]
    ELSE IF f.lines = <<>> THEN [raised |-> "StopIteration", data |-> <<>>, printed |-> <<>>]
    ELSE [raised |-> "", data |-> ParseLinesF(Tail(f.lines)), printed |-> <<>>]

(***************************************************************************)
(* TaskE read_data.                                                        *)
(***************************************************************************)
\* the body of the loop for one line: [err, rec]
ParseLineE(line) ==
    IF line # <<>> /\ Len(line) = FieldsE
    THEN LET v == [i \in 2..FieldsE |-> PyFloat(line[i])]
         IN  IF \E i \in 2..FieldsE : v[i].err # ""
             THEN [err |-> "ValueError", rec |-> <<>>]
             ELSE [err |-> "",
                   rec |-> <<[timestamp |-> line[1],
                              cons_p1 |-> v[2].val, cons_p2 |-> v[3].val, cons_p3 |-> v[4].val,
                              prod_p1 |-> v[5].val, prod_p2 |-> v[6].val, prod_p3 |-> v[7].val]>>]
    ELSE [err |-> "", rec |-> <<>>]

RECURSIVE ParseLinesE(_)
\* [err, data]: the first ValueError leaves the loop
ParseLinesE(ls) ==
    IF ls = <<>> THEN [err |-> "", data |-> <<>>]
    ELSE LET one == ParseLineE(Head(ls))
         IN  IF one.err # "" THEN [err |-> one.err, data |-> <<>>]
             ELSE LET rest == ParseLinesE(Tail(ls))
                  IN  IF rest.err # "" THEN rest
                      ELSE [err |-> "", data |-> one.rec \o rest.data]

\* read_data: [raised, data, printed]
read_data_E(f) ==
    IF ~f.exists
    THEN [raised |-> "", data |-> <<>>, printed |-> <<<<"Error: File not found.">>>>]
    ELSE LET got == ParseLinesE(IF f.lines = <<>> THEN <<>> ELSE Tail(f.lines))
         IN  IF got.err # ""
             THEN [raised |-> "", data |-> <<>>, printed |-> <<<<"Error parsing file">>>>]
             ELSE [raised |-> "", data |-> got.data, printed |-> <<>>]

(***************************************************************************)
(* TaskD read_data.                                                        *)
(***************************************************************************)
\* the body of the loop for one line: [err, rec]
ParseLineD(line) ==
    IF line = <<>> THEN [err |-> "IndexError", rec |-> <<>>]
    ELSE LET t == FromIsoFormat(line[1])
         IN  IF t.err # "" THEN [err |-> t.err, rec |-> <<>>]
             ELSE LET bad == {i \in 2..(LastFieldD + 1) :
                                  i > Len(line) \/ PyIntTok(line[i]).err # ""}
                      first == CHOOSE i \in bad : \A j \in bad : i <= j
                  IN  IF bad # {}
                      THEN [err |-> IF first > Len(line) THEN "IndexError" ELSE "ValueError",
                            rec |-> <<>>]
                      ELSE [err |-> "",
                            rec |-> <<[date |-> DateOf(t.time),
                                       cons |-> <<line[2].val, line[3].val, line[4].val>>,
                                       prod |-> <<line[5].val, line[6].val, line[7].val>>]>>]

RECURSIVE ParseLinesD(_)
\* [err, data]: nothing catches the first exception
ParseLinesD(ls) ==
    IF ls = <<>> THEN [err |-> "", data |-> <<>>]
    ELSE LET one == ParseLineD(Head(ls))
         IN  IF one.err # "" THEN [err |-> one.err, data |-> <<>>]
             ELSE LET rest == ParseLinesD(Tail(ls))
                  IN  IF rest.err # "" THEN rest
                      ELSE [err |-> "", data |-> one.rec \o rest.data]

\* read_data: [raised, data, printed]
read_data_D(f) ==
    IF ~f.exists THEN [raised |-> "FileNotFoundError", data |-> <<>>, printed |-> <<>>]
    ELSE IF f.lines = <<>> THEN [raised |-> "StopIteration", data |-> <<>>, printed |-> <<>>]
    ELSE LET got == ParseLinesD(Tail(f.lines))
         IN  [raised |-> got.err, data |-> got.data, printed |-> <<>>]


(***************************************************************************)
(* Text typed by the user: sequences of one-character strings.             *)
(***************************************************************************)
Digits == <<"0", "1", "2", "3", "4", "5", "6", "7", "8", "9">>
IsDigit(c) == \E i \in 1..10 : Digits[i] = c
DigitVal(c) == (CHOOSE i \in 1..10 : Digits[i] = c) - 1

RECURSIVE LStrip(_)
LStrip(s) == IF s # <<>> /\ Head(s) = " " THEN LStrip(Tail(s)) ELSE s

RECURSIVE RStrip(_)
RStrip(s) == IF s # <<>> /\ s[Len(s)] = " " THEN RStrip(Prefix(s, Len(s) - 1)) ELSE s

\* str.strip()
Strip(s) == RStrip(LStrip(s))

RECURSIVE Split(_, _)
\* str.split(sep): always at least one part
Split(s, sep) ==
    IF \A i \in 1..Len(s) : s[i] # sep THEN <<s>>
    ELSE LET k == CHOOSE i \in 1..Len(s) : s[i] = sep /\ \A j \in 1..(i - 1) : s[j] # sep
         IN  <<Prefix(s, k - 1)>> \o Split(SubSeq(s, k + 1, Len(s)), sep)

RECURSIVE DigitsValue(_, _)
\* the value of a run of digits, saturating just above CIntMax
DigitsValue(s, acc) ==
    IF s = <<>> THEN acc
    ELSE LET d == DigitVal(Head(s))
         IN  IF acc > (CIntMax - d) \div 10 THEN CIntMax
             ELSE DigitsValue(Tail(s), acc * 10 + d)

\* whether a run of digits denotes more than CIntMax
RECURSIVE DigitsOverflow(_, _)
DigitsOverflow(s, acc) ==
    IF s = <<>> THEN FALSE
    ELSE LET d == DigitVal(Head(s))
         IN  IF acc > (CIntMax - d) \div 10 THEN TRUE
             ELSE DigitsOverflow(Tail(s), acc * 10 + d)

\* int(text): [err, val, big]; big: the value does not fit a C int
PyInt(text) ==
    LET t == Strip(text)
        neg == t # <<>> /\ Head(t) = "-"
        body == IF t # <<>> /\ Head(t) \in {"-", "+"} THEN Tail(t) ELSE t
    IN  IF body = <<>> \/ \E i \in 1..Len(body) : ~IsDigit(body[i])
        THEN [err |-> "ValueError", val |-> 0, big |-> FALSE]
        ELSE [err |-> "",
              val |-> IF neg THEN 0 - DigitsValue(body, 0) ELSE DigitsValue(body, 0),
              big |-> /\ DigitsOverflow(body, 0)
                      /\ ~(neg /\ body = <<"2", "1", "4", "7", "4", "8", "3", "6", "4", "8">>)]

IsLeap(y) == (y % 4 = 0 /\ y % 100 # 0) \/ y % 400 = 0

DaysInMonth(y, m) ==
    IF m = 2 THEN (IF IsLeap(y) THEN 29 ELSE 28)
    ELSE IF m \in {4, 6, 9, 11} THEN 30 ELSE 31

\* datetime.date(year, month, day): [err, date]
PyDate(year, month, day) ==
    IF year.big \/ month.big \/ day.big
    THEN [err |-> "OverflowError", date |-> NoDate]
    ELSE IF /\ year.val \in 1..MaxYear
            /\ month.val \in 1..12
            /\ day.val \in 1..DaysInMonth(year.val, month.val)
         THEN [err |-> "", date |-> <<year.val, month.val, day.val>>]
         ELSE [err |-> "ValueError", date |-> NoDate]

\* parse_date_input: [err, date]
parse_date_input(date_str) ==
    LET parts == Split(Strip(date_str), ".")
    IN  IF Len(parts) # 3 THEN [err |-> "ValueError", date |-> NoDate]
        ELSE LET day == PyInt(parts[1])
                 month == PyInt(parts[2])
                 year == PyInt(parts[3])
             IN  IF day.err # "" \/ month.err # "" \/ year.err # ""
                 THEN [err |-> "ValueError", date |-> NoDate]
                 ELSE PyDate(year, month, day)

(***************************************************************************)
(* Formatting.                                                             *)
(***************************************************************************)
RECURSIVE IntToStr(_)
\* str(n) for n >= 0
IntToStr(n) ==
    IF n < 10 THEN <<Digits[n + 1]>> ELSE IntToStr(n \div 10) \o <<Digits[(n % 10) + 1]>>

\* format_date
format_date(d) == IntToStr(d[3]) \o <<".">> \o IntToStr(d[2]) \o <<".">> \o IntToStr(d[1])

Float(n, d) == [n |-> n, d |-> d]

\* the value in hundredths, rounded half to even
RoundHundredths(x) ==
    LET q == x.n \div x.d
        r == x.n % x.d
    IN  IF 2 * r < x.d THEN q
        ELSE IF 2 * r > x.d THEN q + 1
        ELSE IF q % 2 = 0 THEN q ELSE q + 1

\* f"{value:.2f}"
Fmt2f(x) ==
    LET h == RoundHundredths(x)
        a == IF h < 0 THEN 0 - h ELSE h
    IN  (IF x.n < 0 THEN <<"-">> ELSE <<>>)
        \o IntToStr(a \div 100) \o <<".">>
        \o <<Digits[((a % 100) \div 10) + 1], Digits[(a % 10) + 1]>>

\* str.replace(old, new) for one-character old
Replace(s, old, new) == [i \in 1..Len(s) |-> IF s[i] = old THEN new ELSE s[i]]

\* format_number
format_number(value) == Replace(Fmt2f(value), ".", ",")

(***************************************************************************)
(* TaskF reports.  Each create_*_report below is the part of the function  *)
(* after its input loop: [raised, lines].                                  *)
(***************************************************************************)
Rule == <<"-----------------------------------------------------">>

\* a / b on numbers: [raised, value]
TrueDiv(a, b) ==
    IF b = 0 THEN [raised |-> "ZeroDivisionError", value |-> Float(0, 1)]
    ELSE [raised |-> "", value |-> Float(a, b)]

\* a filter that looks at the month only
InMonthAnyYear(record, month, year) == record.time.date[2] = month

\* get_monthly_data, the condition on one record
InMonth(record, month, year) ==
    record.time.date[2] = month /\ record.time.date[1] = year

RECURSIVE get_monthly_data(_, _, _)
\* get_monthly_data
get_monthly_data(data, month, year) ==
    IF data = <<>> THEN <<>>
    ELSE LET record == Head(data)
             monthly == get_monthly_data(Tail(data), month, year)
         IN  IF InMonth(record, month, year)
             THEN <<record>> \o monthly
             ELSE monthly

\* a filter that compares the timestamp itself with the end date at midnight
InRangeMidnight(record, start_date, end_date) ==
    LET rec_date == DateOf(record.time)
    IN  /\ DateLE(start_date, rec_date)
        /\ DateLE(rec_date, end_date)
        /\ (rec_date = end_date => record.time.hour = 0)

\* create_daily_report, the range filter
InRange(record, start_date, end_date) ==
    LET rec_date == DateOf(record.time)
    IN  DateLE(start_date, rec_date) /\ DateLE(rec_date, end_date)

RECURSIVE RangeData(_, _, _)
\* create_daily_report: the loop that fills range_data
RangeData(data, start_date, end_date) ==
    IF data = <<>> THEN <<>>
    ELSE LET record == Head(data)
             range_data == RangeData(Tail(data), start_date, end_date)
         IN  IF InRange(record, start_date, end_date)
             THEN <<record>> \o range_data
             ELSE range_data

\* an average without the guard for the empty range
avg_daily_unguarded(range_data) ==
    TrueDiv(SumOver("temperature", range_data), Len(range_data))

\* create_daily_report: if range_data: ... else: avg_temperature = 0.0
avg_daily(range_data) ==
    IF range_data # <<>>
    THEN TrueDiv(SumOver("temperature", range_data), Len(range_data))
    ELSE [raised |-> "", value |-> Float(0, 1)]

\* create_monthly_report: if monthly_data: ... else: avg_temperature = 0.0
avg_monthly(monthly_data) ==
    IF monthly_data # <<>>
    THEN TrueDiv(SumOver("temperature", monthly_data), Len(monthly_data))
    ELSE [raised |-> "", value |-> Float(0, 1)]

\* create_yearly_report: if data: ... else: avg_temperature = 0.0
avg_yearly(data) ==
    IF data # <<>>
    THEN TrueDiv(SumOver("temperature", data), Len(data))
    ELSE [raised |-> "", value |-> Float(0, 1)]

\* the three summary lines every report ends with
SummaryLines(total_consumption, total_production, avg_temperature) ==
    << <<"- Total consumption: ">> \o format_number(total_consumption) \o <<" kWh">>,
       <<"- Total production: ">> \o format_number(total_production) \o <<" kWh">>,
       <<"- Average temperature: ">> \o format_number(avg_temperature) \o <<" C">>,
       Rule >>

create_daily_report(data, start_date, end_date) ==
    LET range_data == RangeData(data, start_date, end_date)
        total_consumption == Float(SumOver("consumption", range_data), 1)
        total_production == Float(SumOver("production", range_data), 1)
        avg_temperature == avg_daily(range_data)
    IN  IF avg_temperature.raised # ""
        THEN [raised |-> avg_temperature.raised, lines |-> <<>>]
        ELSE [raised |-> "",
              lines |-> <<Rule,
                          <<"Report for the period ">> \o format_date(start_date)
                              \o <<"-">> \o format_date(end_date)>>
                        \o SummaryLines(total_consumption, total_production,
                                        avg_temperature.value)]

month_names ==
    <<"January", "February", "March", "April", "May", "June",
      "July", "August", "September", "October", "November", "December">>

create_monthly_report(data, month) ==
    LET month_name == month_names[month]
        monthly_data == get_monthly_data(data, month, ReportYear)
        total_consumption == Float(SumOver("consumption", monthly_data), 1)
        total_production == Float(SumOver("production", monthly_data), 1)
        avg_temperature == avg_monthly(monthly_data)
    IN  IF avg_temperature.raised # ""
        THEN [raised |-> avg_temperature.raised, lines |-> <<>>]
        ELSE [raised |-> "",
              lines |-> <<Rule, <<"Report for the month: ", month_name>>>>
                        \o SummaryLines(total_consumption, total_production,
                                        avg_temperature.value)]

create_yearly_report(data) ==
    LET total_consumption == Float(SumOver("consumption", data), 1)
        total_production == Float(SumOver("production", data), 1)
        avg_temperature == avg_yearly(data)
    IN  IF avg_temperature.raised # ""
        THEN [raised |-> avg_temperature.raised, lines |-> <<>>]
        ELSE [raised |-> "",
              lines |-> <<Rule, <<"Report for the year: 2025">>>>
                        \o SummaryLines(total_consumption, total_production,
                                        avg_temperature.value)]

(***************************************************************************)
(* What the TaskF session prints.                                          *)
(***************************************************************************)
MainMenuText ==
    << <<"Choose a report type:">>,
       <<"1) Daily summary for a date range">>,
       <<"2) Monthly summary for one month">>,
       <<"3) Full year 2025 summary">>,
       <<"4) Exit the program">>,
       <<"Your choice: ">> >>

SubMenuText ==
    << <<"What would you like to do next?">>,
       <<"1) Write the report to the file report.txt">>,
       <<"2) Create a new report">>,
       <<"3) Exit">>,
       <<"Your choice: ">> >>

InvalidMain == <<"Invalid choice. Please enter 1, 2, 3, or 4.">>
InvalidSub == <<"Invalid choice. Please enter 1, 2, or 3.">>
StartPrompt == <<"Enter start date (dd.mm.yyyy): ">>
EndPrompt == <<"Enter end date (dd.mm.yyyy): ">>
InvalidDate == <<"Invalid date format. Please use dd.mm.yyyy">>
MonthPrompt == <<"Enter month number (1-12): ">>
MonthOutOfRange == <<"Please enter a number between 1 and 12.">>
InvalidMonth == <<"Invalid input. Please enter a number between 1 and 12.">>
CouldNotLoad == <<"Error: Could not load data from 2025.csv">>
Bye == <<"Thank you! Bye!">>
ReportWritten == <<"Report written to report.txt">>
ErrorWriting == <<"Error writing to file: ", "<reason>">>
Traceback(e) == <<"Traceback (most recent call last): ", e>>

(***************************************************************************)
(* What the user may type, and what the file system may do to a write.     *)
(***************************************************************************)
MenuInputs == { <<"1">>, <<"2">>, <<"3">>, <<"4">>, <<" ", "3">>, <<"5">>, <<>> }

DateInputs ==
    { <<"1", "5", ".", "0", "1", ".", "2", "0", "2", "5">>,
      <<"2", ".", "2", ".", "2", "0", "2", "5">>,
      <<"3", "1", ".", "0", "2", ".", "2", "0", "2", "5">>,
      <<"1", "5", ".", "0", "1">>,
      <<"1", ".", "1", ".", "9", "9", "9", "9", "9", "9", "9", "9", "9", "9">> }

MonthInputs == { <<"1">>, <<" ", "1", "2">>, <<"1", "3">>, <<"x">> }

Min(a, b) == IF a < b THEN a ELSE b

\* how open()/write() goes: it works, open fails, or a write fails after
\* `at` whole lines reached the file
WriteFates(lines) ==
    {[fail |-> "none", at |-> Len(lines)], [fail |-> "open", at |-> 0]}
        \cup {[fail |-> "write", at |-> k] : k \in 0..Min(MaxWritten, Len(lines))}

NoSel == [kind |-> "none", start |-> NoDate, end |-> NoDate, month |-> 0]
NoInput == [at |-> "none", text |-> <<>>]
Typed(where, text) == [at |-> where, text |-> text]

\* a write that swallows the IOError without a word
write_report_silent(lines, old, fate) ==
    CASE fate.fail = "none" ->
            [file |-> OnDisk(lines), printed |-> <<ReportWritten>>, io |-> "ok"]
      [] fate.fail = "open" ->
            [file |-> old, printed |-> <<>>, io |-> "failed"]
      [] OTHER ->
            [file |-> OnDisk(Prefix(lines, fate.at)), printed |-> <<>>, io |-> "failed"]

\* a write that opens report.txt in append mode
write_report_append(lines, old, fate) ==
    CASE fate.fail = "none" ->
            [file |-> OnDisk(old.lines \o lines), printed |-> <<ReportWritten>>, io |-> "ok"]
      [] fate.fail = "open" ->
            [file |-> old, printed |-> <<ErrorWriting>>, io |-> "failed"]
      [] OTHER ->
            [file |-> OnDisk(old.lines \o Prefix(lines, fate.at)),
             printed |-> <<ErrorWriting>>, io |-> "failed"]

\* a write that is carried out twice in a row
write_report_twice(lines, old, fate) ==
    CASE fate.fail = "none" ->
            [file |-> OnDisk(lines), printed |-> <<ReportWritten, ReportWritten>>,
             io |-> "ok"]
      [] fate.fail = "open" ->
            [file |-> old, printed |-> <<ErrorWriting, ErrorWriting>>, io |-> "failed"]
      [] OTHER ->
            [file |-> OnDisk(Prefix(lines, fate.at)),
             printed |-> <<ErrorWriting, ErrorWriting>>, io |-> "failed"]

\* write_report_to_file under a fate: [file, printed, io]
write_report_to_file(lines, old, fate) ==
    CASE fate.fail = "none" ->
            [file |-> OnDisk(lines), printed |-> <<ReportWritten>>, io |-> "ok"]
      [] fate.fail = "open" ->
            [file |-> old, printed |-> <<ErrorWriting>>, io |-> "failed"]
      [] OTHER ->
            [file |-> OnDisk(Prefix(lines, fate.at)), printed |-> <<ErrorWriting>>,
             io |-> "failed"]

\* a menu that lets "5" through as well
ValidMainChoiceFive(choice) == choice \in {<<"1">>, <<"2">>, <<"3">>, <<"4">>, <<"5">>}

\* show_main_menu: if choice in ["1", "2", "3", "4"]
ValidMainChoice(choice) == choice \in {<<"1">>, <<"2">>, <<"3">>, <<"4">>}

\* show_sub_menu: if choice in ["1", "2", "3"]
ValidSubChoice(choice) == choice \in {<<"1">>, <<"2">>, <<"3">>}

\* except (ValueError, IndexError)
CaughtByDateLoop(err) == err \in {"ValueError", "IndexError"}

\* a check that only None would trip
NothingLoadedNone(data) == FALSE

\* main: if not db
NothingLoaded(data) == data = <<>>

(***************************************************************************)
(* The runs.                                                               *)
(***************************************************************************)
Programs == {"TaskD", "TaskE", "TaskF"}

\* report.txt before the run: not there, or left by an earlier run
ReportFilesAtStart == {Absent, OnDisk(<< <<"an older report">> >>)}

Init ==
    /\ prog \in Programs
    /\ file \in Files(prog)
    /\ db = <<>>
    /\ pc = "start"
    /\ sel = NoSel
    /\ report = <<>>
    /\ reportFile \in ReportFilesAtStart
    /\ out = <<>>
    /\ lastInput = NoInput
    /\ ioResult = "none"

\* TaskD main: rows = read_data(filename)
LoadD ==
    /\ prog = "TaskD" /\ pc = "start"
    /\ LET got == read_data_D(file)
       IN  IF got.raised # ""
           THEN /\ pc' = "crashed"
                /\ out' = got.printed \o <<Traceback(got.raised)>>
                /\ db' = db
           ELSE /\ pc' = "loaded"
                /\ out' = got.printed
                /\ db' = got.data
    /\ UNCHANGED <<prog, file, sel, report, reportFile, lastInput, ioResult>>

\* TaskE main: data = read_data(filename)
LoadE ==
    /\ prog = "TaskE" /\ pc = "start"
    /\ LET got == read_data_E(file)
       IN  /\ pc' = "loaded"
           /\ out' = got.printed
           /\ db' = got.data
    /\ UNCHANGED <<prog, file, sel, report, reportFile, lastInput, ioResult>>

\* TaskF main up to the first prompt
LoadF ==
    /\ prog = "TaskF" /\ pc = "start"
    /\ LET got == read_data_F(file)
       IN  IF got.raised # ""
           THEN /\ pc' = "crashed"
                /\ out' = got.printed \o <<Traceback(got.raised)>>
                /\ db' = db
           ELSE IF NothingLoaded(got.data)
           THEN /\ pc' = "load_failed"
                /\ out' = got.printed \o <<CouldNotLoad>>
                /\ db' = got.data
           ELSE /\ pc' = "main_menu"
                /\ out' = got.printed \o MainMenuText
                /\ db' = got.data
    /\ UNCHANGED <<prog, file, sel, report, reportFile, lastInput, ioResult>>

\* a main that forgets print_report_to_console
ComputedUnshown(r) ==
    IF r.raised # ""
    THEN /\ pc' = "crashed"
         /\ out' = <<Traceback(r.raised)>>
         /\ report' = report
    ELSE /\ pc' = "sub_menu"
         /\ out' = SubMenuText
         /\ report' = r.lines

\* main after a create_*_report call: the report is printed and the sub-menu shown
Computed(r) ==
    IF r.raised # ""
    THEN /\ pc' = "crashed"
         /\ out' = <<Traceback(r.raised)>>
         /\ report' = report
    ELSE /\ pc' = "sub_menu"
         /\ out' = r.lines \o SubMenuText
         /\ report' = r.lines

\* one answer at the main menu
MainMenuInput(inp) ==
    /\ prog = "TaskF" /\ pc = "main_menu"
    /\ lastInput' = Typed("main_menu", inp)
    /\ ioResult' = "none"
    /\ LET choice == Strip(inp)
       IN  IF ~ValidMainChoice(choice)
           THEN /\ pc' = pc
                /\ out' = <<InvalidMain>> \o MainMenuText
                /\ UNCHANGED <<sel, report>>
           ELSE
           CASE choice = <<"1">> ->
                  /\ pc' = "start_date"
                  /\ sel' = [NoSel EXCEPT !.kind = "daily"]
                  /\ out' = <<StartPrompt>>
                  /\ report' = report
             [] choice = <<"2">> ->
                  /\ pc' = "month"
                  /\ sel' = [NoSel EXCEPT !.kind = "monthly"]
                  /\ out' = <<MonthPrompt>>
                  /\ report' = report
             [] choice = <<"3">> ->
                  /\ sel' = [NoSel EXCEPT !.kind = "yearly"]
                  /\ Computed(create_yearly_report(db))
             [] choice = <<"4">> ->
                  /\ pc' = "exit"
                  /\ out' = <<Bye>>
                  /\ UNCHANGED <<sel, report>>
             [] OTHER ->                      \* else: continue
                  /\ pc' = pc
                  /\ out' = MainMenuText
                  /\ UNCHANGED <<sel, report>>
    /\ UNCHANGED <<prog, file, db, reportFile>>

\* one answer at "Enter start date"
StartDateInput(inp) ==
    /\ prog = "TaskF" /\ pc = "start_date"
    /\ lastInput' = Typed("start_date", inp)
    /\ ioResult' = "none"
    /\ LET got == parse_date_input(inp)
       IN  IF got.err = ""
           THEN /\ sel' = [sel EXCEPT !.start = got.date]
                /\ pc' = "end_date"
                /\ out' = <<EndPrompt>>
           ELSE IF CaughtByDateLoop(got.err)
           THEN /\ pc' = pc
                /\ out' = <<InvalidDate, StartPrompt>>
                /\ sel' = sel
           ELSE /\ pc' = "crashed"
                /\ out' = <<Traceback(got.err)>>
                /\ sel' = sel
    /\ UNCHANGED <<prog, file, db, report, reportFile>>

\* one answer at "Enter end date"
EndDateInput(inp) ==
    /\ prog = "TaskF" /\ pc = "end_date"
    /\ lastInput' = Typed("end_date", inp)
    /\ ioResult' = "none"
    /\ LET got == parse_date_input(inp)
       IN  IF got.err = ""
           THEN /\ sel' = [sel EXCEPT !.end = got.date]
                /\ Computed(create_daily_report(db, sel.start, got.date))
           ELSE IF CaughtByDateLoop(got.err)
           THEN /\ pc' = pc
                /\ out' = <<InvalidDate, EndPrompt>>
                /\ UNCHANGED <<sel, report>>
           ELSE /\ pc' = "crashed"
                /\ out' = <<Traceback(got.err)>>
                /\ UNCHANGED <<sel, report>>
    /\ UNCHANGED <<prog, file, db, reportFile>>

\* a monthly report that leaves only the records of its month in the list
MonthInputConsuming(inp) ==
    /\ prog = "TaskF" /\ pc = "month"
    /\ lastInput' = Typed("month", inp)
    /\ ioResult' = "none"
    /\ LET month == PyInt(Strip(inp))
       IN  IF month.err = "" /\ 1 <= month.val /\ month.val <= 12
           THEN /\ sel' = [sel EXCEPT !.month = month.val]
                /\ db' = get_monthly_data(db, month.val, ReportYear)
                /\ Computed(create_monthly_report(db, month.val))
           ELSE /\ pc' = pc
                /\ out' = <<InvalidMonth, MonthPrompt>>
                /\ UNCHANGED <<sel, report, db>>
    /\ UNCHANGED <<prog, file, reportFile>>

\* one answer at "Enter month number"
MonthInput(inp) ==
    /\ prog = "TaskF" /\ pc = "month"
    /\ lastInput' = Typed("month", inp)
    /\ ioResult' = "none"
    /\ LET month == PyInt(Strip(inp))
       IN  IF month.err # ""
           THEN /\ pc' = pc
                /\ out' = <<InvalidMonth, MonthPrompt>>
                /\ UNCHANGED <<sel, report>>
           ELSE IF 1 <= month.val /\ month.val <= 12
           THEN /\ sel' = [sel EXCEPT !.month = month.val]
                /\ Computed(create_monthly_report(db, month.val))
           ELSE /\ pc' = pc
                /\ out' = <<MonthOutOfRange, MonthPrompt>>
                /\ UNCHANGED <<sel, report>>
    /\ UNCHANGED <<prog, file, db, reportFile>>

\* one answer at the sub-menu; choice 1 meets the file system's fate
SubMenuInput(inp) ==
    /\ prog = "TaskF" /\ pc = "sub_menu"
    /\ lastInput' = Typed("sub_menu", inp)
    /\ LET sub_choice == Strip(inp)
       IN  IF ~ValidSubChoice(sub_choice)
           THEN /\ pc' = pc
                /\ out' = <<InvalidSub>> \o SubMenuText
                /\ ioResult' = "none"
                /\ reportFile' = reportFile
           ELSE
           CASE sub_choice = <<"1">> ->
                  \E fate \in WriteFates(report) :
                  LET w == write_report_to_file(report, reportFile, fate)
                  IN  /\ reportFile' = w.file
                      /\ ioResult' = w.io
                      /\ out' = w.printed \o MainMenuText
                      /\ pc' = "main_menu"
             [] sub_choice = <<"2">> ->
                  /\ pc' = "main_menu"
                  /\ out' = MainMenuText
                  /\ ioResult' = "none"
                  /\ reportFile' = reportFile
             [] sub_choice = <<"3">> ->
                  /\ pc' = "exit"
                  /\ out' = <<Bye>>
                  /\ ioResult' = "none"
                  /\ reportFile' = reportFile
             [] OTHER ->                      \* the inner while True goes round
                  /\ pc' = pc
                  /\ out' = SubMenuText
                  /\ ioResult' = "none"
                  /\ reportFile' = reportFile
    /\ UNCHANGED <<prog, file, db, sel, report>>

Next ==
    \/ LoadD
    \/ LoadE
    \/ LoadF
    \/ \E inp \in MenuInputs : MainMenuInput(inp)
    \/ \E inp \in DateInputs : StartDateInput(inp)
    \/ \E inp \in DateInputs : EndDateInput(inp)
    \/ \E inp \in MonthInputs : MonthInput(inp)
    \/ \E inp \in MenuInputs : SubMenuInput(inp)

Spec == Init /\ [][Next]_vars

(***************************************************************************)
(* The session with a user who goes on: the program, once started, runs    *)
(* up to its first prompt; at the menus the user does not pass the exit by *)
(* for ever; at a date prompt and at the month prompt the user does not    *)
(* give unusable answers for ever.  A valid answer can be given exactly    *)
(* while its prompt is open, so weak fairness of the valid answer is       *)
(* written out as: the prompt is closed again and again, or the valid      *)
(* answer is given again and again.                                        *)
(***************************************************************************)
\* an answer parse_date_input accepts, given at the start-date prompt
ValidStartDate ==
    \E inp \in DateInputs : parse_date_input(inp).err = "" /\ StartDateInput(inp)

\* an answer parse_date_input accepts, given at the end-date prompt
ValidEndDate ==
    \E inp \in DateInputs : parse_date_input(inp).err = "" /\ EndDateInput(inp)

\* a whole number from 1 to 12, given at the month prompt
ValidMonth ==
    \E inp \in MonthInputs :
        /\ PyInt(Strip(inp)).err = ""
        /\ 1 <= PyInt(Strip(inp)).val /\ PyInt(Strip(inp)).val <= 12
        /\ MonthInput(inp)

\* the exit, chosen at the main menu or at the sub-menu
ExitChosen == MainMenuInput(<<"4">>) \/ SubMenuInput(<<"3">>)

\* the prompt `at` of the TaskF session is open
PromptOpen(at) == prog = "TaskF" /\ pc = at

FairSpec ==
    /\ Spec
    /\ WF_vars(LoadF)
    /\ SF_vars(ExitChosen)
    /\ ([]<>~PromptOpen("start_date") \/ []<><<ValidStartDate>>_vars)
    /\ ([]<>~PromptOpen("end_date") \/ []<><<ValidEndDate>>_vars)
    /\ ([]<>~PromptOpen("month") \/ []<><<ValidMonth>>_vars)

(***************************************************************************)
(* The phase-based reports: TaskD (one week, printed) and TaskE (three     *)
(* weeks, written to summary.txt).  Numbers are exact: Float(n, d) is      *)
(* n / (100 * d).  A dict is a function on the set of its keys.            *)
(***************************************************************************)
RECURSIVE Gcd(_, _)
Gcd(a, b) == IF b = 0 THEN a ELSE Gcd(b, a % b)

\* a + b on numbers
AddF(a, b) ==
    LET d == (a.d * b.d) \div Gcd(a.d, b.d)
    IN  Float(a.n * (d \div a.d) + b.n * (d \div b.d), d)

\* the two numbers are equal (used by the properties)
EqF(a, b) == a.n * b.d = b.n * a.d

Zero == Float(0, 1)

RECURSIVE DaysBeforeMonth(_, _)
\* the days of the year y before its month m
DaysBeforeMonth(y, m) ==
    IF m <= 1 THEN 0 ELSE DaysInMonth(y, m - 1) + DaysBeforeMonth(y, m - 1)

\* date.toordinal()
ToOrdinal(d) ==
    LET y == d[1] - 1
    IN  365 * y + (y \div 4) - (y \div 100) + (y \div 400)
            + DaysBeforeMonth(d[1], d[2]) + d[3]

\* date.weekday(): Monday is 0
Weekday(d) == (ToOrdinal(d) + 6) % 7

\* f"{n:02d}"
Pad2(n) == IF n < 10 THEN <<"0">> \o IntToStr(n) ELSE IntToStr(n)

\* d.strftime("%d.%m.%Y") in TaskD, format_date in TaskE
format_date_padded(d) == Pad2(d[3]) \o <<".">> \o Pad2(d[2]) \o <<".">> \o IntToStr(d[1])

RECURSIVE SortedDays(_)
\* sorted(daily.keys())
SortedDays(S) ==
    IF S = {} THEN <<>>
    ELSE LET first == CHOOSE d \in S : \A e \in S : DateLE(d, e)
         IN  <<first>> \o SortedDays(S \ {first})

FINNISH_WEEKDAYS ==
    <<"maanantai", "tiistai", "keskiviikko", "torstai", "perjantai", "lauantai", "sunnuntai">>

\* the running totals of a day before its first row
NewDayD == [cons |-> <<Zero, Zero, Zero>>, prod |-> <<Zero, Zero, Zero>>]

\* a loop that assigns where the code adds
AddRowAssign(totals, row) ==
    [cons |-> [i \in 1..3 |-> Float(row.cons[i], 1000)],
     prod |-> [i \in 1..3 |-> Float(row.prod[i], 1000)]]

\* compute_daily_totals, the loop over range(3) for one row
AddRowD(totals, row) ==
    [cons |-> [i \in 1..3 |-> AddF(totals.cons[i], Float(row.cons[i], 1000))],
     prod |-> [i \in 1..3 |-> AddF(totals.prod[i], Float(row.prod[i], 1000))]]

RECURSIVE compute_daily_totals(_)
\* compute_daily_totals: the dict after the rows, taken in order
compute_daily_totals(rows) ==
    IF rows = <<>> THEN <<>>
    ELSE LET daily == compute_daily_totals(Prefix(rows, Len(rows) - 1))
             row == rows[Len(rows)]
             d == row.date
             old == IF d \in DOMAIN daily THEN daily[d] ELSE NewDayD
         IN  [x \in (DOMAIN daily) \cup {d} |-> IF x = d THEN AddRowD(old, row) ELSE daily[x]]

\* format_kwh
format_kwh(value) == Replace(Fmt2f(value), ".", ",")

\* print_report, one row: the cells, without the padding between them
RowD(d, totals) ==
    << <<FINNISH_WEEKDAYS[Weekday(d) + 1]>>, format_date_padded(d),
       format_kwh(totals.cons[1]), format_kwh(totals.cons[2]), format_kwh(totals.cons[3]),
       format_kwh(totals.prod[1]), format_kwh(totals.prod[2]), format_kwh(totals.prod[3]) >>

HeadD ==
    << <<"Week 42 electricity consumption and production (kWh, by phase)">>,
       <<"Day           Date         Consumption [kWh]                 Production [kWh]">>,
       <<"             (dd.mm.yyyy)  v1       v2       v3              v1      v2      v3">>,
       <<"--------------------------------------------------------------------------------">> >>

\* print_report: the lines printed
print_report(daily) ==
    LET days == SortedDays(DOMAIN daily)
    IN  HeadD \o [k \in 1..Len(days) |-> RowD(days[k], daily[days[k]])]

\* the keys of a TaskE daily summary
PhaseFields == {"cons_p1", "cons_p2", "cons_p3", "prod_p1", "prod_p2", "prod_p3"}

\* calculate_daily_summaries, the six += of one record
AddRecordE(summary, record) ==
    [k \in PhaseFields |-> AddF(summary[k], Float(record[k], 1))]

RECURSIVE calculate_daily_summaries(_)
\* calculate_daily_summaries: [raised, daily]
calculate_daily_summaries(data) ==
    IF data = <<>> THEN [raised |-> "", daily |-> <<>>]
    ELSE LET before == calculate_daily_summaries(Prefix(data, Len(data) - 1))
             record == data[Len(data)]
             dt == FromIsoFormat(record.timestamp)
             day == DateOf(dt.time)
             daily == before.daily
             old == IF day \in DOMAIN daily THEN daily[day] ELSE [k \in PhaseFields |-> Zero]
         IN  IF before.raised # "" THEN before
             ELSE IF dt.err # "" THEN [raised |-> dt.err, daily |-> daily]
             ELSE [raised |-> "",
                   daily |-> [x \in (DOMAIN daily) \cup {day} |->
                                 IF x = day THEN AddRecordE(old, record) ELSE daily[x]]]

\* convert_wh_to_kwh_and_format
convert_wh_to_kwh_and_format(value_wh) ==
    LET value_kwh == Float(value_wh.n, value_wh.d * 1000)
    IN  Replace(Fmt2f(value_kwh), ".", ",")

\* get_finnish_weekday
get_finnish_weekday(day) ==
    <<"Monday", "Tuesday", "Wednesday", "Thursday", "Friday", "Saturday",
      "Sunday">>[Weekday(day) + 1]

\* format_report_row: the cells, without the padding between them
format_report_row(day, summary) ==
    << <<get_finnish_weekday(day)>>, format_date_padded(day),
       convert_wh_to_kwh_and_format(summary.cons_p1),
       convert_wh_to_kwh_and_format(summary.cons_p2),
       convert_wh_to_kwh_and_format(summary.cons_p3),
       convert_wh_to_kwh_and_format(summary.prod_p1),
       convert_wh_to_kwh_and_format(summary.prod_p2),
       convert_wh_to_kwh_and_format(summary.prod_p3) >>

Weeks == <<41, 42, 43>>

Banner == <<"=====================================================================================">>
Dashes == <<"-------------------------------------------------------------------------------------">>

\* write_report, the section of one week
WeekSection(week_num, daily_summaries) ==
    LET sorted_days == SortedDays(DOMAIN daily_summaries)
    IN  << <<"Week ">> \o IntToStr(week_num)
              \o <<" electricity consumption and production (kWh, by phase)">>,
           Dashes,
           <<"Day        Date            Consumption [kWh]            Production [kWh]">>,
           <<"                           v1       v2       v3           v1       v2       v3">>,
           Dashes >>
        \o [k \in 1..Len(sorted_days) |->
               format_report_row(sorted_days[k], daily_summaries[sorted_days[k]])]
        \o <<Dashes, <<>>>>

RECURSIVE WeekSections(_, _)
\* write_report, the loop over sorted(weekly_data.keys()) from the k-th week on
WeekSections(weekly_data, k) ==
    IF k > Len(Weeks) THEN <<>>
    ELSE (IF Weeks[k] \in DOMAIN weekly_data
          THEN WeekSection(Weeks[k], weekly_data[Weeks[k]]) ELSE <<>>)
         \o WeekSections(weekly_data, k + 1)

RECURSIVE TotalOfDays(_, _, _)
\* write_report, the inner total loop: one key summed over the days S of a week
TotalOfDays(key, daily_summaries, S) ==
    IF S = {} THEN Zero
    ELSE LET day == CHOOSE d \in S : TRUE
         IN  AddF(daily_summaries[day][key], TotalOfDays(key, daily_summaries, S \ {day}))

RECURSIVE TotalOf(_, _, _)
\* write_report, the outer total loop: one key summed over the weeks W
TotalOf(key, weekly_data, W) ==
    IF W = {} THEN Zero
    ELSE LET week_num == CHOOSE w \in W : TRUE
         IN  AddF(TotalOfDays(key, weekly_data[week_num], DOMAIN weekly_data[week_num]),
                  TotalOf(key, weekly_data, W \ {week_num}))

\* write_report: the lines of summary.txt
write_report(weekly_data) ==
    LET W == DOMAIN weekly_data
        total_cons_p1 == TotalOf("cons_p1", weekly_data, W)
        total_cons_p2 == TotalOf("cons_p2", weekly_data, W)
        total_cons_p3 == TotalOf("cons_p3", weekly_data, W)
        total_prod_p1 == TotalOf("prod_p1", weekly_data, W)
        total_prod_p2 == TotalOf("prod_p2", weekly_data, W)
        total_prod_p3 == TotalOf("prod_p3", weekly_data, W)
        total_cons == AddF(AddF(total_cons_p1, total_cons_p2), total_cons_p3)
        total_prod == AddF(AddF(total_prod_p1, total_prod_p2), total_prod_p3)
    IN  << Banner,
           <<"ELECTRICITY CONSUMPTION AND PRODUCTION REPORT - WEEKS 41, 42, 43">>,
           Banner, <<>> >>
        \o WeekSections(weekly_data, 1)
        \o << Banner, <<"TOTAL SUMMARY - ALL WEEKS (41, 42, 43)">>, Banner, <<>>,
              <<"Total Consumption (all phases): ">>
                  \o convert_wh_to_kwh_and_format(total_cons) \o <<" kWh">>,
              <<"  - Phase 1: ">> \o convert_wh_to_kwh_and_format(total_cons_p1) \o <<" kWh">>,
              <<"  - Phase 2: ">> \o convert_wh_to_kwh_and_format(total_cons_p2) \o <<" kWh">>,
              <<"  - Phase 3: ">> \o convert_wh_to_kwh_and_format(total_cons_p3) \o <<" kWh">>,
              <<>>,
              <<"Total Production (all phases): ">>
                  \o convert_wh_to_kwh_and_format(total_prod) \o <<" kWh">>,
              <<"  - Phase 1: ">> \o convert_wh_to_kwh_and_format(total_prod_p1) \o <<" kWh">>,
              <<"  - Phase 2: ">> \o convert_wh_to_kwh_and_format(total_prod_p2) \o <<" kWh">>,
              <<"  - Phase 3: ">> \o convert_wh_to_kwh_and_format(total_prod_p3) \o <<" kWh">> >>

(***************************************************************************)
(* Runs of the two phase-based programs from start to end.  In TaskD, db   *)
(* is the list of rows and report the dict of daily totals; in TaskE, db   *)
(* is the list of the data of the weeks read so far and report the dict    *)
(* weekly_data, and each week file is met when it is read.                 *)
(***************************************************************************)
MeterInit ==
    /\ prog \in {"TaskD", "TaskE"}
    /\ file \in (IF prog = "TaskD" THEN Files(prog) ELSE {Absent})
    /\ db = <<>>
    /\ pc = "start"
    /\ sel = NoSel
    /\ report = <<>>
    /\ reportFile = Absent
    /\ out = <<>>
    /\ lastInput = NoInput
    /\ ioResult = "none"

\* TaskD main: daily_totals = compute_daily_totals(rows); print_report(daily_totals)
ReportD ==
    /\ prog = "TaskD" /\ pc = "loaded"
    /\ report' = compute_daily_totals(db)
    /\ out' = print_report(report')
    /\ pc' = "done"
    /\ UNCHANGED <<prog, file, db, sel, reportFile, lastInput, ioResult>>

\* TaskE main, one round of the loop over csv_files: f is the week's file
WeekE(f) ==
    /\ prog = "TaskE" /\ pc \in {"start", "weeks"} /\ Len(db) < Len(Weeks)
    /\ LET week_num == Weeks[Len(db) + 1]
           got == read_data_E(f)
           sums == calculate_daily_summaries(got.data)
           processing == <<"Processing week">> \o IntToStr(week_num) \o <<".csv...">>
       IN  /\ db' = Append(db, got.data)
           /\ IF got.data = <<>>
              THEN /\ report' = report
                   /\ out' = <<processing>> \o got.printed
                                \o << <<"  Week ">> \o IntToStr(week_num)
                                         \o <<": No data found">> >>
                   /\ pc' = IF Len(db') = Len(Weeks) THEN "write" ELSE "weeks"
              ELSE IF sums.raised # ""
              THEN /\ report' = report
                   /\ out' = <<processing, Traceback(sums.raised)>>
                   /\ pc' = "crashed"
              ELSE /\ report' = [w \in (DOMAIN report) \cup {week_num} |->
                                    IF w = week_num THEN sums.daily ELSE report[w]]
                   /\ out' = <<processing>>
                                \o << <<"  Week ">> \o IntToStr(week_num) \o <<": ">>
                                         \o IntToStr(Cardinality(DOMAIN sums.daily))
                                         \o <<" days processed">> >>
                   /\ pc' = IF Len(db') = Len(Weeks) THEN "write" ELSE "weeks"
    /\ UNCHANGED <<prog, file, sel, reportFile, lastInput, ioResult>>

\* TaskE main: write_report('summary.txt', weekly_data)
WriteE ==
    /\ prog = "TaskE" /\ pc = "write"
    /\ reportFile' = OnDisk(write_report(report))
    /\ out' = << <<"Writing report to summary.txt...">>,
                 <<"Report successfully written to summary.txt">>,
                 <<"Task completed!">> >>
    /\ pc' = "done"
    /\ UNCHANGED <<prog, file, db, sel, report, lastInput, ioResult>>

MeterNext ==
    \/ LoadD
    \/ ReportD
    \/ \E f \in Files("TaskE") : WeekE(f)
    \/ WriteE

MeterSpec == MeterInit /\ [][MeterNext]_vars

(***************************************************************************)
(* The reservation scripts: TaskB (one reservation, ten fields), TaskC     *)
(* (lists), TaskG (objects, dicts).  A line of reservations.txt is the     *)
(* sequence of its fields between the "|"; the field of the boolean is     *)
(* text, one character a chunk.  A whole number k is the token             *)
(* Num("int", 100 * k), a price the token of its hundredths.               *)
(***************************************************************************)
True == <<"T", "r", "u", "e">>

\* what the field of the boolean may hold
BoolTokens ==
    { True, <<"t", "r", "u", "e">>, <<"T", "R", "U", "E">>, <<" ", "T", "r", "u", "e">>,
      <<"F", "a", "l", "s", "e">>, <<"y", "e", "s">>, <<>> }

\* lines of TaskC / TaskG: id|name|email|phone|date|time|durationHours|price|
\* confirmed|resource|createdAt, and the blank line
ResLines ==
    { <<Num("int", 20100), "Moomin Valley", "moomin@whitevalley.org", "0509876543",
        Iso(<<2025, 11, 12>>, 9), Iso(NoDate, 9), Num("int", h), Num("dot", 1850),
        b, "Forest Area 1", Iso(<<2025, 8, 12>>, 14)>> :
          h \in {200, 300}, b \in BoolTokens }
    \cup {<<>>}

\* lines of TaskB: number|booker|date|time|hours|rate|paid|venue|phone|email
ResLinesB ==
    { <<Num("int", 12300), "Anna Virtanen", Iso(<<2025, 10, 31>>, 10), Iso(NoDate, 10),
        Num("int", 200), Num("dot", 1995), b, "Meeting Room A", "0401234567",
        "anna.virtanen@example.com">> : b \in BoolTokens }

Scripts == {"TaskB", "TaskC", "TaskG_class", "TaskG_dict"}

\* every state of reservations.txt
ResFiles(p) ==
    {Absent} \cup {OnDisk(ls) : ls \in SeqsUpTo(IF p = "TaskB" THEN ResLinesB ELSE ResLines,
                                                MaxRes)}

Uppers == <<"A", "B", "C", "D", "E", "F", "G", "H", "I", "J", "K", "L", "M",
            "N", "O", "P", "Q", "R", "S", "T", "U", "V", "W", "X", "Y", "Z">>
Lowers == <<"a", "b", "c", "d", "e", "f", "g", "h", "i", "j", "k", "l", "m",
            "n", "o", "p", "q", "r", "s", "t", "u", "v", "w", "x", "y", "z">>

\* str.lower()
Lower(s) ==
    [i \in 1..Len(s) |->
        IF \E k \in 1..26 : Uppers[k] = s[i]
        THEN Lowers[CHOOSE k \in 1..26 : Uppers[k] = s[i]]
        ELSE s[i]]

\* datetime.strptime(text, format): [err, time]
StrpTime(tok) == FromIsoFormat(tok)

\* the whole number a token of kind "int" stands for
Whole(tok) == PyIntTok(tok).val \div 100

\* f"{n:.2f}" with the dot replaced by a comma
Money(x) == Replace(Fmt2f(x), ".", ",")

\* strftime("%H.%M")
HourMinute(time) == Pad2(time.hour) \o <<".", "0", "0">>

\* task_b print_paid: the value of paid
paid_B(text) == Lower(Strip(text)) = <<"t", "r", "u", "e">>

\* task_c convert_reservation_data: the ninth value
confirmed_C(text) == text = True

\* task_g_class Reservation.__init__ and task_g_dict convert_reservation_data:
\* the value of confirmed
confirmed_G(text) == IF Strip(text) = True THEN TRUE ELSE FALSE

\* the conversions of one line of TaskC / TaskG, in the order of the code:
\* [err, rec]; confirmed is the value the script gave the boolean
Convert(p, reservation) ==
    IF reservation = <<>> THEN [err |-> "ValueError", rec |-> <<>>]     \* int("\n")
    ELSE LET bad == \/ PyIntTok(reservation[1]).err # ""
                    \/ StrpTime(reservation[5]).err # ""
                    \/ StrpTime(reservation[6]).err # ""
                    \/ PyIntTok(reservation[7]).err # ""
                    \/ PyFloat(reservation[8]).err # ""
                    \/ StrpTime(reservation[11]).err # ""
         IN  IF bad THEN [err |-> "ValueError", rec |-> <<>>]
             ELSE [err |-> "",
                   rec |-> [reservationId |-> Whole(reservation[1]),
                            name |-> reservation[2],
                            email |-> reservation[3],
                            phone |-> reservation[4],
                            reservationDate |-> DateOf(StrpTime(reservation[5]).time),
                            reservationTime |-> StrpTime(reservation[6]).time,
                            durationHours |-> Whole(reservation[7]),
                            price |-> PyFloat(reservation[8]).val,
                            confirmed |-> IF p = "TaskC" THEN confirmed_C(reservation[9])
                                          ELSE confirmed_G(reservation[9]),
                            reservedResource |-> reservation[10],
                            createdAt |-> StrpTime(reservation[11]).time]]

RECURSIVE FetchLines(_, _)
\* fetch_reservations, the loop over the lines: [raised, reservations]
FetchLines(p, ls) ==
    IF ls = <<>> THEN [raised |-> "", reservations |-> <<>>]
    ELSE IF p # "TaskC" /\ Head(ls) = <<>> THEN FetchLines(p, Tail(ls))   \* if line.strip()
    ELSE LET one == Convert(p, Head(ls))
             rest == FetchLines(p, Tail(ls))
         IN  IF one.err # "" THEN [raised |-> one.err, reservations |-> <<>>]
             ELSE IF rest.raised # "" THEN rest
             ELSE [raised |-> "", reservations |-> <<one.rec>> \o rest.reservations]

\* fetch_reservations
fetch_reservations(p, f) ==
    IF ~f.exists THEN [raised |-> "FileNotFoundError", reservations |-> <<>>]
    ELSE FetchLines(p, f.lines)

RECURSIVE Revenue(_, _)
\* total_revenue, the sum: r[7] of the confirmed in TaskC, durationHours * price
\* of the confirmed in TaskG
Revenue(p, reservations) ==
    IF reservations = <<>> THEN Zero
    ELSE LET r == Head(reservations)
             rest == Revenue(p, Tail(reservations))
         IN  IF ~r.confirmed THEN rest
             ELSE IF p = "TaskC" THEN AddF(Float(r.price, 1), rest)
             ELSE AddF(Float(r.durationHours * r.price, 1), rest)

\* total_revenue: the line printed (EUR stands for the euro sign)
total_revenue(p, reservations) ==
    <<"Total revenue from confirmed reservations: ">>
        \o Money(Revenue(p, reservations)) \o <<" EUR">>

\* the line one reservation adds to a section of the output, if any
\* (-> stands for the arrow the scripts print)
SectionLine(section, p, r) ==
    LET date_str == format_date_padded(r.reservationDate)
        time_str == HourMinute(r.reservationTime)
        dash == IF p = "TaskC" THEN <<"- ">> ELSE <<>>
    IN  CASE section = 1 ->
               IF r.confirmed
               THEN << <<"- ", r.name, ", ", r.reservedResource, ", ">> \o date_str
                          \o <<" at ">> \o time_str >>
               ELSE <<>>
          [] section = 2 ->
               IF r.durationHours >= 3
               THEN << <<"- ", r.name, ", ">> \o date_str \o <<" at ">> \o time_str
                          \o <<", duration ">> \o IntToStr(r.durationHours)
                          \o <<" h, ", r.reservedResource>> >>
               ELSE <<>>
          [] OTHER ->
               << dash \o <<r.name, " -> ">>
                       \o (IF r.confirmed THEN <<"Confirmed">> ELSE <<"NOT Confirmed">>) >>

RECURSIVE SectionLines(_, _, _)
\* confirmed_reservations (1), long_reservations (2), confirmation_statuses (3)
SectionLines(section, p, reservations) ==
    IF reservations = <<>> THEN <<>>
    ELSE SectionLine(section, p, Head(reservations))
             \o SectionLines(section, p, Tail(reservations))

RECURSIVE ConfirmedCount(_)
\* sum(1 for r in reservations if r.confirmed)
ConfirmedCount(reservations) ==
    IF reservations = <<>> THEN 0
    ELSE (IF Head(reservations).confirmed THEN 1 ELSE 0) + ConfirmedCount(Tail(reservations))

\* confirmation_summary
confirmation_summary(reservations) ==
    LET confirmed_count == ConfirmedCount(reservations)
        not_confirmed_count == Len(reservations) - confirmed_count
    IN  << <<"- Confirmed reservations: ">> \o IntToStr(confirmed_count) \o <<" pcs">>,
           <<"- Not confirmed reservations: ">> \o IntToStr(not_confirmed_count)
               \o <<" pcs">> >>

\* main of TaskC / TaskG after fetch_reservations: the lines printed
PrintAll(p, reservations) ==
    LET gap == IF p = "TaskC" THEN << <<>> >> ELSE <<>>      \* the print() of TaskC
    IN  << <<"1) Confirmed Reservations">> >>
          \o SectionLines(1, p, reservations) \o gap
          \o << <<"2) Long Reservations (>= 3 h)">> >>
          \o SectionLines(2, p, reservations) \o gap
          \o << <<"3) Reservation Confirmation Status">> >>
          \o SectionLines(3, p, reservations) \o gap
          \o << <<"4) Confirmation Summary">> >>
          \o confirmation_summary(reservations) \o gap
          \o << <<"5) Total Revenue from Confirmed Reservations">> >>
          \o <<total_revenue(p, reservations)>> \o gap

RECURSIVE JoinLines(_)
\* task_b main: f.read().strip().split('|'), a line break staying inside a field
JoinLines(ls) ==
    IF ls = <<>> THEN <<Junk>>
    ELSE IF Len(ls) = 1 THEN Head(ls)
    ELSE LET first == Head(ls)
             rest == JoinLines(Tail(ls))
         IN  Prefix(first, Len(first) - 1)
                 \o << <<first[Len(first)], "\n", Head(rest)>> >> \o Tail(rest)

\* task_b main after the file is read: [raised, printed]
PrintB(reservation) ==
    IF \/ PyIntTok(reservation[1]).err # "" \/ Len(reservation) < 10
       \/ StrpTime(reservation[3]).err # "" \/ StrpTime(reservation[4]).err # ""
       \/ PyIntTok(reservation[5]).err # "" \/ PyFloat(reservation[6]).err # ""
    THEN [raised |-> IF PyIntTok(reservation[1]).err # "" THEN "ValueError"
                     ELSE IF Len(reservation) < 10 THEN "IndexError" ELSE "ValueError",
          printed |-> <<>>]
    ELSE LET hours == Whole(reservation[5])
             rate == PyFloat(reservation[6]).val
             total == Float(hours * rate, 1)
             paid == paid_B(reservation[7])
         IN  [raised |-> "",
              printed |->
                << <<"Reservation number: ">> \o IntToStr(Whole(reservation[1])),
                   <<"Booker: ", reservation[2]>>,
                   <<"Date: ">> \o format_date_padded(DateOf(StrpTime(reservation[3]).time)),
                   <<"Start time: ">> \o HourMinute(StrpTime(reservation[4]).time),
                   <<"Number of hours: ">> \o IntToStr(hours),
                   <<"Hourly rate: ">> \o Money(Float(rate, 1)) \o <<" EUR">>,
                   <<"Total price: ">> \o Money(total) \o <<" EUR">>,
                   <<"Paid: ", IF paid THEN "Yes" ELSE "No">>,
                   <<"Venue: ", reservation[8]>>,
                   <<"Phone: ", reservation[9]>>,
                   <<"Email: ", reservation[10]>> >>]

(***************************************************************************)
(* Runs of the reservation scripts.  db is the list of reservations (in    *)
(* TaskB the fields of the one reservation), out what the run printed.     *)
(***************************************************************************)
ResInit ==
    /\ prog \in Scripts
    /\ file \in ResFiles(prog)
    /\ db = <<>>
    /\ pc = "start"
    /\ sel = NoSel
    /\ report = <<>>
    /\ reportFile = Absent
    /\ out = <<>>
    /\ lastInput = NoInput
    /\ ioResult = "none"

\* task_b main
MainB ==
    /\ prog = "TaskB" /\ pc = "start"
    /\ IF ~file.exists
       THEN /\ pc' = "crashed"
            /\ out' = <<Traceback("FileNotFoundError")>>
            /\ db' = db
       ELSE LET reservation == JoinLines(file.lines)
                printed == PrintB(reservation)
            IN  /\ db' = reservation
                /\ IF printed.raised # ""
                   THEN pc' = "crashed" /\ out' = <<Traceback(printed.raised)>>
                   ELSE pc' = "done" /\ out' = printed.printed
    /\ UNCHANGED <<prog, file, sel, report, reportFile, lastInput, ioResult>>

\* main of task_c, task_g_class, task_g_dict: reservations = fetch_reservations(...)
FetchRes ==
    /\ prog \in Scripts \ {"TaskB"} /\ pc = "start"
    /\ LET got == fetch_reservations(prog, file)
       IN  IF got.raised # ""
           THEN pc' = "crashed" /\ out' = <<Traceback(got.raised)>> /\ db' = db
           ELSE pc' = "loaded" /\ out' = <<>> /\ db' = got.reservations
    /\ UNCHANGED <<prog, file, sel, report, reportFile, lastInput, ioResult>>

\* main of task_c, task_g_class, task_g_dict: the five outputs
PrintRes ==
    /\ prog \in Scripts \ {"TaskB"} /\ pc = "loaded"
    /\ out' = PrintAll(prog, db)
    /\ pc' = "done"
    /\ UNCHANGED <<prog, file, db, sel, report, reportFile, lastInput, ioResult>>

ResNext ==
    \/ MainB
    \/ FetchRes
    \/ PrintRes

ResSpec == ResInit /\ [][ResNext]_vars

(***************************************************************************)
(* Vocabulary of the properties.                                           *)
(***************************************************************************)
Over == {"exit", "crashed", "load_failed"}

\* days on a straight scale: later dates have larger ordinals
Ordinal(d) == d[1] * 372 + d[2] * 31 + d[3]

RECURSIVE SumIdx(_, _)
\* the sum of a field of db over the index set I
SumIdx(field, I) ==
    IF I = {} THEN 0
    ELSE LET i == CHOOSE j \in I : TRUE IN db[i][field] + SumIdx(field, I \ {i})

\* the records of db a date range / a month of ReportYear selects
RangeIdx == {i \in 1..Len(db) : /\ Ordinal(sel.start) <= Ordinal(db[i].time.date)
                                /\ Ordinal(db[i].time.date) <= Ordinal(sel.end)}
MonthIdx == {i \in 1..Len(db) : /\ db[i].time.date[2] = sel.month
                                /\ db[i].time.date[1] = ReportYear}

\* the parameters in sel are complete: report was computed from them
DailyDone == prog = "TaskF" /\ sel.kind = "daily" /\ sel.end # NoDate
MonthlyDone == prog = "TaskF" /\ sel.kind = "monthly" /\ sel.month # 0
YearlyDone == prog = "TaskF" /\ sel.kind = "yearly"

ConsLine(n) == <<"- Total consumption: ">> \o format_number(Float(n, 1)) \o <<" kWh">>
ProdLine(n) == <<"- Total production: ">> \o format_number(Float(n, 1)) \o <<" kWh">>
AvgLine(n, d) == <<"- Average temperature: ">> \o format_number(Float(n, d)) \o <<" C">>

ZeroLines ==
    << <<"- Total consumption: ", "0", ",", "0", "0", " kWh">>,
       <<"- Total production: ", "0", ",", "0", "0", " kWh">>,
       <<"- Average temperature: ", "0", ",", "0", "0", " C">> >>

\* the report the parameters s ask for
ReportFor(s, data) ==
    CASE s.kind = "daily" -> create_daily_report(data, s.start, s.end).lines
      [] s.kind = "monthly" -> create_monthly_report(data, s.month).lines
      [] OTHER -> create_yearly_report(data).lines

(***************************************************************************)
(* C1: at the main menu and at the sub-menu an input that is not one of    *)
(* the offered choices prints the invalid-choice message and the same menu *)
(* exactly once, and changes nothing else: not the position, the records,  *)
(* the parameters, the current report or report.txt.                       *)
(***************************************************************************)
C1_InvalidChoiceReprompts ==
    [][ /\ ( /\ pc = "main_menu"
             /\ lastInput'.at = "main_menu"
             /\ Strip(lastInput'.text) \notin {<<"1">>, <<"2">>, <<"3">>, <<"4">>} )
           => /\ pc' = "main_menu"
              /\ out' = <<InvalidMain>> \o MainMenuText
              /\ ioResult' = "none"
              /\ UNCHANGED <<prog, file, db, sel, report, reportFile>>
        /\ ( /\ pc = "sub_menu"
             /\ lastInput'.at = "sub_menu"
             /\ Strip(lastInput'.text) \notin {<<"1">>, <<"2">>, <<"3">>} )
           => /\ pc' = "sub_menu"
              /\ out' = <<InvalidSub>> \o SubMenuText
              /\ ioResult' = "none"
              /\ UNCHANGED <<prog, file, db, sel, report, reportFile>>
      ]_vars

\* "5" was typed at the sub-menu of a displayed report and the menu is asked again
C1_Witness ==
    /\ pc = "sub_menu"
    /\ lastInput = Typed("sub_menu", <<"5">>)
    /\ out = <<InvalidSub>> \o SubMenuText
    /\ report # <<>>

(***************************************************************************)
(* C2: once the session has started it ends only by an explicit exit       *)
(* selection, "4" at the main menu or "3" at the sub-menu; no other input, *)
(* computation or write ends it.                                           *)
(***************************************************************************)
C2_EndsOnlyByExitChoice ==
    (prog = "TaskF" /\ pc \in Over /\ lastInput.at # "none")
        => \/ lastInput.at = "main_menu" /\ Strip(lastInput.text) = <<"4">>
           \/ lastInput.at = "sub_menu" /\ Strip(lastInput.text) = <<"3">>

(***************************************************************************)
(* C3 as stated: a failed write of report.txt is reported with a message,  *)
(* the session goes on, and it is back at the sub-menu.                    *)
(***************************************************************************)
C3_FailedWriteReturnsToSubMenu ==
    (prog = "TaskF" /\ ioResult = "failed")
        => /\ out[1] = ErrorWriting
           /\ pc = "sub_menu"

(***************************************************************************)
(* C3 as amended: a failed write of report.txt is reported with a message, *)
(* the session goes on, and it is back at the main menu, whose text        *)
(* follows the message; the variable report still holds the report.        *)
(***************************************************************************)
C3_FailedWriteReturnsToMainMenu ==
    [][ (prog = "TaskF" /\ ioResult' = "failed")
           => /\ pc = "sub_menu" /\ Strip(lastInput'.text) = <<"1">>
              /\ out' = <<ErrorWriting>> \o MainMenuText
              /\ pc' = "main_menu"
              /\ UNCHANGED <<db, sel, report>>
      ]_vars

\* a write failed after one line reached report.txt, and the main menu is shown
C3_Witness ==
    /\ ioResult = "failed"
    /\ pc = "main_menu"
    /\ reportFile = OnDisk(Prefix(report, 1))
    /\ out = <<ErrorWriting>> \o MainMenuText

(***************************************************************************)
(* C4: when 2025.csv is absent the session never starts: the failure is    *)
(* reported, no menu is shown, no input is read, no report is computed,    *)
(* printed or written, and main returns normally.                          *)
(***************************************************************************)
C4_AbsentFileNeverStarts ==
    (prog = "TaskF" /\ ~file.exists /\ pc # "start")
        => /\ pc = "load_failed"
           /\ out = <<FileNotFoundF, CouldNotLoad>>
           /\ lastInput = NoInput
           /\ report = <<>>
           /\ sel = NoSel
           /\ ioResult = "none"
           /\ reportFile \in ReportFilesAtStart

\* main has returned after reporting the missing file
C4_Witness ==
    /\ prog = "TaskF" /\ ~file.exists
    /\ pc = "load_failed"
    /\ out = <<FileNotFoundF, CouldNotLoad>>

(***************************************************************************)
(* C5: for each loader, a line with a wrong field count or an              *)
(* unconvertible value never aborts or discards the load: read_data        *)
(* returns, and every well-formed line of the file has its record in the   *)
(* list it returns.                                                        *)
(***************************************************************************)
IsNumber(tok, kinds) == tok.kind \in kinds

\* a line in the format its program documents
WellFormed(p, line) ==
    CASE p = "TaskF" ->
            /\ Len(line) = 4 /\ line[1].kind = "iso"
            /\ \A i \in 2..4 : IsNumber(line[i], {"int", "dot", "comma"})
      [] p = "TaskE" ->
            /\ Len(line) = 7 /\ line[1].kind = "iso"
            /\ \A i \in 2..7 : IsNumber(line[i], {"int", "dot"})
      [] OTHER ->
            /\ Len(line) = 7 /\ line[1].kind = "iso"
            /\ \A i \in 2..7 : IsNumber(line[i], {"int"})

\* rec is what the loader of p makes of the line's timestamp
RecordOf(p, line, rec) ==
    CASE p = "TaskF" -> rec.time = [date |-> line[1].date, hour |-> line[1].hour]
      [] p = "TaskE" -> rec.timestamp = line[1]
      [] OTHER -> rec.date = line[1].date

C5_BadLineNeverAbortsLoad ==
    ( /\ file.exists /\ file.lines # <<>> /\ pc # "start"
      /\ \E i \in 2..Len(file.lines) : WellFormed(prog, file.lines[i])
      /\ \E i \in 2..Len(file.lines) : ~WellFormed(prog, file.lines[i]) )
        => /\ ~(pc = "crashed" /\ lastInput.at = "none")
           /\ \A i \in 2..Len(file.lines) :
                  WellFormed(prog, file.lines[i])
                      => \E j \in 1..Len(db) : RecordOf(prog, file.lines[i], db[j])

(***************************************************************************)
(* C6: whatever the data file and whatever the user types, no exception    *)
(* leaves TaskF's main.                                                    *)
(***************************************************************************)
C6_NoExceptionLeavesMain == prog = "TaskF" => pc # "crashed"

(***************************************************************************)
(* C7: the sub-menu is entered only by the step that computed the report   *)
(* chosen at the main menu (yearly at once, daily after the end date,      *)
(* monthly after the month) and printed it once, followed by the sub-menu; *)
(* parameters are asked only after a main-menu choice; a report is only    *)
(* ever assigned by such a step; from the sub-menu the session moves only  *)
(* to the main menu or to the exit.                                        *)
(***************************************************************************)
C7_StateOrder ==
    [][ prog = "TaskF" =>
        /\ (pc' = "sub_menu" /\ pc # "sub_menu")
              => /\ \/ pc = "main_menu" /\ Strip(lastInput'.text) = <<"3">> /\ YearlyDone'
                    \/ pc = "end_date" /\ DailyDone'
                    \/ pc = "month" /\ MonthlyDone'
                 /\ report' = ReportFor(sel', db)
                 /\ Len(report') = 6
                 /\ out' = report' \o SubMenuText
        /\ (pc' \in {"start_date", "month"} /\ pc' # pc)
              => pc = "main_menu" /\ Strip(lastInput'.text) \in {<<"1">>, <<"2">>}
        /\ (pc' = "end_date" /\ pc' # pc) => pc = "start_date"
        /\ report' # report => (pc' = "sub_menu" /\ pc # "sub_menu")
        /\ pc = "sub_menu" => pc' \in {"sub_menu", "main_menu", "exit"}
      ]_vars

\* a daily report has just been printed once, the sub-menu after it
C7_Witness ==
    /\ pc = "sub_menu" /\ DailyDone
    /\ lastInput.at = "end_date"
    /\ out = report \o SubMenuText

(***************************************************************************)
(* C8: a successful persist leaves report.txt holding exactly the lines of *)
(* the report most recently displayed, in order, nothing of what the file  *)
(* held before, and says so to the user.                                   *)
(***************************************************************************)
C8_PersistOverwrites ==
    (prog = "TaskF" /\ ioResult = "ok")
        => /\ reportFile = OnDisk(report)
           /\ report = ReportFor(sel, db)
           /\ out[1] = ReportWritten

\* a monthly report was written over what report.txt held
C8_Witness ==
    /\ ioResult = "ok" /\ MonthlyDone
    /\ reportFile = OnDisk(report) /\ Len(report) = 6
    /\ out = <<ReportWritten>> \o MainMenuText

(***************************************************************************)
(* C9: the totals and the average of a daily report are those of exactly   *)
(* the records whose calendar date d satisfies start <= d <= end, whatever *)
(* their hour.                                                             *)
(***************************************************************************)
C9_RangeInclusive ==
    DailyDone
        => /\ report[3] = ConsLine(SumIdx("consumption", RangeIdx))
           /\ report[4] = ProdLine(SumIdx("production", RangeIdx))
           /\ report[5] = IF RangeIdx = {} THEN AvgLine(0, 1)
                          ELSE AvgLine(SumIdx("temperature", RangeIdx),
                                       Cardinality(RangeIdx))

\* a record of 23:00 on the end date was counted in a range that starts earlier
C9_Witness ==
    /\ DailyDone /\ pc = "sub_menu"
    /\ Ordinal(sel.start) < Ordinal(sel.end)
    /\ \E i \in RangeIdx : db[i].time.date = sel.end /\ db[i].time.hour = 23
    /\ report[3] # ZeroLines[1]

(***************************************************************************)
(* C10: a date range (reversed ones included) or a month that selects no   *)
(* record gives a complete report with totals 0,00 and average 0,00, and   *)
(* computing never raises.                                                 *)
(***************************************************************************)
C10_EmptySelection ==
    /\ (DailyDone /\ RangeIdx = {})
          => Len(report) = 6 /\ SubSeq(report, 3, 5) = ZeroLines
    /\ (MonthlyDone /\ MonthIdx = {})
          => Len(report) = 6 /\ SubSeq(report, 3, 5) = ZeroLines
    /\ (prog = "TaskF" /\ pc = "crashed")
          => out \in {<<Traceback("StopIteration")>>, <<Traceback("OverflowError")>>}

\* a reversed range over loaded records has been reported
C10_Witness ==
    /\ DailyDone /\ pc = "sub_menu"
    /\ Ordinal(sel.start) > Ordinal(sel.end)
    /\ db # <<>>
    /\ SubSeq(report, 3, 5) = ZeroLines

(***************************************************************************)
(* C11: the session leaves the two date prompts only towards the computed  *)
(* daily report, with both dates entered as parseable dates; an            *)
(* unparseable answer re-asks only the prompt it was given at and keeps    *)
(* what was accepted before; a parseable end date proceeds to computing    *)
(* whatever the order of the two dates.                                    *)
(***************************************************************************)
C11_DatesCollected ==
    [][ prog = "TaskF" =>
        /\ (pc \in {"start_date", "end_date"} /\ pc' \notin {"start_date", "end_date"})
              => /\ pc' = "sub_menu"
                 /\ parse_date_input(lastInput'.text).err = ""
                 /\ sel'.start # NoDate /\ sel'.end # NoDate
        /\ (pc = "start_date" /\ lastInput'.at = "start_date"
              /\ parse_date_input(lastInput'.text).err # "")
              => pc' = "start_date" /\ sel' = sel /\ out' = <<InvalidDate, StartPrompt>>
        /\ (pc = "end_date" /\ lastInput'.at = "end_date"
              /\ parse_date_input(lastInput'.text).err # "")
              => pc' = "end_date" /\ sel' = sel /\ out' = <<InvalidDate, EndPrompt>>
        /\ (pc = "end_date" /\ lastInput'.at = "end_date"
              /\ parse_date_input(lastInput'.text).err = "")
              => /\ pc' = "sub_menu"
                 /\ sel' = [sel EXCEPT !.end = parse_date_input(lastInput'.text).date]
      ]_vars

(***************************************************************************)
(* C12: an answer at the month prompt computes a monthly report only when  *)
(* it is an integer m with 1 <= m <= 12; any other answer re-asks the      *)
(* month and computes nothing; the totals and the average of the report    *)
(* are those of exactly the records of month m of the year 2025.           *)
(***************************************************************************)
C12_MonthChecked ==
    [][ (prog = "TaskF" /\ pc = "month" /\ lastInput'.at = "month") =>
        LET m == PyInt(lastInput'.text)
        IN  IF m.err = "" /\ 1 <= m.val /\ m.val <= 12
            THEN /\ pc' = "sub_menu"
                 /\ sel' = [sel EXCEPT !.month = m.val]
                 /\ report'[3] = ConsLine(SumIdx("consumption", MonthIdx))'
                 /\ report'[4] = ProdLine(SumIdx("production", MonthIdx))'
                 /\ report'[5] = (IF MonthIdx = {} THEN AvgLine(0, 1)
                                  ELSE AvgLine(SumIdx("temperature", MonthIdx),
                                               Cardinality(MonthIdx)))'
            ELSE /\ pc' = "month"
                 /\ out' \in {<<InvalidMonth, MonthPrompt>>,
                              <<MonthOutOfRange, MonthPrompt>>}
                 /\ UNCHANGED <<sel, report, reportFile, db>>
      ]_vars

\* the report of January has just been computed from a record of January 2025
C12_Witness ==
    /\ MonthlyDone /\ pc = "sub_menu" /\ lastInput.at = "month"
    /\ sel.month = 1 /\ MonthIdx # {}
    /\ report[3] = ConsLine(SumIdx("consumption", MonthIdx))
    /\ report[3] # ZeroLines[1]

(***************************************************************************)
(* Vocabulary of the properties of the phase-based reports.                *)
(***************************************************************************)
RECURSIVE SumRowsD(_, _, _)
\* the Wh of one direction and phase over a list of TaskD rows
SumRowsD(rows, dir, i) ==
    IF rows = <<>> THEN 0 ELSE Head(rows)[dir][i] + SumRowsD(Tail(rows), dir, i)

RECURSIVE SumDaysD(_, _, _, _)
\* the daily totals of one direction and phase, summed over the days S
SumDaysD(daily, S, dir, i) ==
    IF S = {} THEN Zero
    ELSE LET d == CHOOSE x \in S : TRUE
         IN  AddF(daily[d][dir][i], SumDaysD(daily, S \ {d}, dir, i))

RECURSIVE SumDaysE(_, _, _)
\* the daily summaries of one key, summed over the days S
SumDaysE(daily, S, key) ==
    IF S = {} THEN Zero
    ELSE LET d == CHOOSE x \in S : TRUE
         IN  AddF(daily[d][key], SumDaysE(daily, S \ {d}, key))

\* the records TaskE has loaded, all weeks together
LoadedE == IF Len(db) = 3 THEN db[1] \o db[2] \o db[3] ELSE <<>>

\* a line of the TOTAL SUMMARY for wh hundredths of Wh
TotalLine(label, wh) ==
    <<label>> \o Replace(Fmt2f(Float(wh, 1000)), ".", ",") \o <<" kWh">>

IsDdMmYyyy(s) ==
    /\ Len(s) = 10
    /\ s[3] = "." /\ s[6] = "."
    /\ \A i \in {1, 2, 4, 5, 7, 8, 9, 10} : IsDigit(s[i])

(***************************************************************************)
(* C14: a date typed at a date prompt in the form dd.mm.yyyy that          *)
(* parse_date_input accepts is given back unchanged by format_date.        *)
(***************************************************************************)
C14_DateRoundTrip ==
    ( /\ prog = "TaskF"
      /\ lastInput.at \in {"start_date", "end_date"}
      /\ IsDdMmYyyy(lastInput.text)
      /\ parse_date_input(lastInput.text).err = "" )
        => format_date(parse_date_input(lastInput.text).date) = lastInput.text

RECURSIVE WhOfDayD(_, _, _, _)
\* the Wh of one direction and phase over the TaskD rows of the day d
WhOfDayD(rows, d, dir, i) ==
    IF rows = <<>> THEN 0
    ELSE (IF Head(rows).date = d THEN Head(rows)[dir][i] ELSE 0)
         + WhOfDayD(Tail(rows), d, dir, i)

RECURSIVE WhOfDayE(_, _, _)
\* the Wh of one key over the TaskE records of the day d
WhOfDayE(data, d, key) ==
    IF data = <<>> THEN 0
    ELSE (IF Head(data).timestamp.date = d THEN Head(data)[key] ELSE 0)
         + WhOfDayE(Tail(data), d, key)

(***************************************************************************)
(* C17: the running totals of compute_daily_totals (TaskD) and of          *)
(* calculate_daily_summaries (TaskE) are kilowatt-hours: every entry of a  *)
(* day is the sum of that day's Wh values, each divided by 1000 when it    *)
(* was added.                                                              *)
(***************************************************************************)
C17_TotalsInKWh ==
    /\ (prog = "TaskD" /\ pc = "done") =>
          \A d \in DOMAIN report, dir \in {"cons", "prod"}, i \in 1..3 :
              EqF(report[d][dir][i], Float(WhOfDayD(db, d, dir, i), 1000))
    /\ (prog = "TaskE" /\ pc # "crashed") =>
          \A w \in 1..Len(db) :
              Weeks[w] \in DOMAIN report =>
                  \A d \in DOMAIN report[Weeks[w]], key \in PhaseFields :
                      EqF(report[Weeks[w]][d][key], Float(WhOfDayE(db[w], d, key), 1000))

(***************************************************************************)
(* Vocabulary of the properties of the reservation scripts.                *)
(***************************************************************************)
RECURSIVE RevenueDue(_)
\* durationHours x price, in hundredths, over the confirmed reservations
RevenueDue(reservations) ==
    IF reservations = <<>> THEN 0
    ELSE (IF Head(reservations).confirmed
          THEN Head(reservations).durationHours * Head(reservations).price ELSE 0)
         + RevenueDue(Tail(reservations))

\* the line of the total revenue in what a finished run printed
RevenueLine == IF prog = "TaskC" THEN out[Len(out) - 1] ELSE out[Len(out)]

RECURSIVE NonBlank(_)
\* the lines that hold a reservation
NonBlank(ls) ==
    IF ls = <<>> THEN <<>>
    ELSE (IF Head(ls) = <<>> THEN <<>> ELSE <<Head(ls)>>) \o NonBlank(Tail(ls))

(***************************************************************************)
(* C15: in TaskC and in both variants of TaskG the total revenue printed   *)
(* is the sum of durationHours x price over exactly the reservations the   *)
(* script holds as confirmed.                                              *)
(***************************************************************************)
C15_RevenueOfConfirmed ==
    (prog \in {"TaskC", "TaskG_class", "TaskG_dict"} /\ pc = "done")
        => RevenueLine = <<"Total revenue from confirmed reservations: ">>
                            \o Money(Float(RevenueDue(db), 1)) \o <<" EUR">>

(***************************************************************************)
(* C16: in every reservation script the boolean is true exactly when its   *)
(* field is the text True, and no other text in that field makes the run   *)
(* fail.                                                                   *)
(***************************************************************************)
C16_OnlyLiteralTrue ==
    /\ (prog = "TaskB" /\ file.exists /\ Len(file.lines) = 1)
          => /\ pc # "crashed"
             /\ pc = "done" => (out[8] = <<"Paid: ", "Yes">> <=> db[7] = True)
    /\ (prog \in {"TaskC", "TaskG_class", "TaskG_dict"} /\ file.exists
          /\ file.lines = NonBlank(file.lines))
          => /\ pc # "crashed"
             /\ pc \in {"loaded", "done"}
                   => /\ Len(db) = Len(file.lines)
                      /\ \A i \in 1..Len(db) : db[i].confirmed <=> file.lines[i][9] = True

\* what read_data returned at startup
LoadedAtStart == read_data_F(file).data

(***************************************************************************)
(* C18: once loaded, the list of records is changed by no answer at any    *)
(* prompt, by no report and by no write: it stays what read_data returned. *)
(* Hence every report computed in the session is the report of its         *)
(* parameters over that list, the same whenever it is asked for.           *)
(***************************************************************************)
C18_RecordsReadOnly ==
    [][ (prog = "TaskF" /\ pc # "start") =>
        /\ db' = db
        /\ db = LoadedAtStart
        /\ (pc' = "sub_menu" /\ pc # "sub_menu")
              => report' = ReportFor(sel', LoadedAtStart)
      ]_vars

\* the report of January is shown a second time, equal to the one that was
\* written to report.txt when it was shown before
C18_Witness ==
    /\ prog = "TaskF" /\ pc = "sub_menu" /\ lastInput.at = "month"
    /\ MonthlyDone /\ sel.month = 1 /\ MonthIdx # {}
    /\ db = LoadedAtStart
    /\ reportFile = OnDisk(report)

\* the step is the answer "1" at the sub-menu
PersistStep ==
    /\ pc = "sub_menu" /\ lastInput'.at = "sub_menu"
    /\ Strip(lastInput'.text) = <<"1">>

(***************************************************************************)
(* C19: report.txt is created or changed, and a write is attempted, only   *)
(* by the answer 1 at the sub-menu; that answer makes one write: it leaves *)
(* the file as it was or holding the report or a first part of it, and     *)
(* reports one outcome.                                                    *)
(***************************************************************************)
C19_OnlyPersistWrites ==
    [][ prog = "TaskF" =>
        /\ (reportFile' # reportFile \/ ioResult' # "none") => PersistStep
        /\ PersistStep =>
              /\ \/ reportFile' = reportFile
                 \/ \E k \in 0..Len(report) : reportFile' = OnDisk(Prefix(report, k))
              /\ out' \in {<<ReportWritten>> \o MainMenuText, <<ErrorWriting>> \o MainMenuText}
      ]_vars

\* the yearly report has just been written to report.txt by the answer 1
C19_Witness ==
    /\ prog = "TaskF" /\ YearlyDone
    /\ lastInput = Typed("sub_menu", <<"1">>)
    /\ ioResult = "ok" /\ reportFile = OnDisk(report) /\ report # <<>>
    /\ out = <<ReportWritten>> \o MainMenuText

RECURSIVE MonthlyTotals(_, _)
\* the totals of a field in the monthly reports of the months 1..m, added up
MonthlyTotals(field, m) ==
    IF m = 0 THEN 0
    ELSE SumOver(field, get_monthly_data(db, m, ReportYear)) + MonthlyTotals(field, m - 1)

(***************************************************************************)
(* C20: the total consumption and the total production of the yearly       *)
(* report are the sums of the totals of the twelve monthly reports over    *)
(* the same records.                                                       *)
(***************************************************************************)
C20_YearIsSumOfMonths ==
    (YearlyDone /\ pc = "sub_menu")
        => /\ report[3] = ConsLine(MonthlyTotals("consumption", 12))
           /\ report[4] = ProdLine(MonthlyTotals("production", 12))

(***************************************************************************)
(* C21: each prompt is left by the first valid answer it is given: a menu  *)
(* by one of its choices, a date prompt by a date that parses, the month   *)
(* prompt by a whole number from 1 to 12.  Hence, with a user who in the   *)
(* end gives a valid answer at every prompt and chooses the exit at a      *)
(* menu, a session that has reached the main menu reaches the exit.        *)
(***************************************************************************)
C21_SessionEnds ==
    /\ [][ prog = "TaskF" =>
           /\ (pc = "main_menu" /\ lastInput'.at = "main_menu"
                 /\ Strip(lastInput'.text) \in {<<"1">>, <<"2">>, <<"3">>, <<"4">>})
                 => pc' # "main_menu"
           /\ (pc = "sub_menu" /\ lastInput'.at = "sub_menu"
                 /\ Strip(lastInput'.text) \in {<<"1">>, <<"2">>, <<"3">>})
                 => pc' # "sub_menu"
           /\ (pc = "start_date" /\ lastInput'.at = "start_date"
                 /\ parse_date_input(lastInput'.text).err = "")
                 => pc' = "end_date"
           /\ (pc = "end_date" /\ lastInput'.at = "end_date"
                 /\ parse_date_input(lastInput'.text).err = "")
                 => pc' = "sub_menu"
           /\ (pc = "month" /\ lastInput'.at = "month"
                 /\ PyInt(Strip(lastInput'.text)).err = ""
                 /\ PyInt(Strip(lastInput'.text)).val \in 1..12)
                 => pc' = "sub_menu"
         ]_vars
    /\ (prog = "TaskF" /\ pc = "main_menu") ~> (pc = "exit")
====
